---------------------------- MODULE Spec2Model ----------------------------
(***************************************************************************)
(* PyTrll (src/trello.py): the keyed, chunked, paced executor of App       *)
(* (App.queue, App.execute), the family refresh built on it                *)
(* (App.set_family), the node operations it stages (BaseObject.get_self,    *)
(* Board.get_lists, Board.get_cards, Board.create_list) and the queries of  *)
(* ModifiedList (__getitem__).                                             *)
(*                                                                         *)
(* The objects of the library live in a heap: cls and json are indexed by   *)
(* the object, and a collection is a sequence of objects.                  *)
(*                                                                         *)
(* A caller is a Python thread that calls into the one shared App.  The    *)
(* worker threads of the ThreadPoolExecutor that execute() opens for each  *)
(* chunk are the StartCall / FinishCall steps.                             *)
(***************************************************************************)
EXTENDS Naturals, Integers, Sequences, FiniteSets, TLC

\* ------------------------------------------------------------- bounds
MaxCalls == 4        \* deferred calls a caller stages with queue() in one run
MaxChunk == 3        \* chunk_size ranges over 1..MaxChunk
MaxThreads == 2      \* threads ranges over 1..MaxThreads
MaxChildren == 2     \* lists a board's listing can report
MaxRaceStaged == 1   \* queue() calls of the second thread beside a set_family
MaxVersion == 2      \* versions of its data that Trello goes through
MaxNodeCalls == 2    \* node operations a caller stages in one run
MaxLen == 3          \* elements of a collection a query is put to
MaxKeys == 2         \* string keys of a projection

Callers == {1, 2}
UserKeys == {"k1", "k2"}
BoardIds == {"b"}
\* the Board object the callers hold is the first object constructed
BoardRefs == {1}
ChildNames == <<"c1", "c2", "c3", "c4">>
ChildIds == {ChildNames[i] : i \in 1..MaxChildren}
NodeIds == BoardIds \cup ChildIds
CardNames == <<"d1", "d2", "d3", "d4">>
CardIds == {CardNames[i] : i \in 1..MaxChildren}
\* ModifiedList.types
Types == {"Board", "List", "Card", "Checklist", "Checkitem", "CustomField",
          "CustomFieldItem", "Attachment"}
\* identities for the calls of two set_family runs and of the queue() calls beside them
FamilyIds == MaxRaceStaged + 2 * (2 + MaxChildren)
IdCap == IF MaxCalls > FamilyIds THEN MaxCalls ELSE FamilyIds

VARIABLES
    request_pool,   \* App.__request_pool: dict key -> list of staged calls
    chunk_size,     \* App.__chunk_size
    threads,        \* App.__threads
    pc,             \* per caller: where it is inside execute()
    key,            \* per caller: execute()'s key argument
    pool_lst,       \* per caller: execute()'s pool_lst (the list of chunks)
    ci,             \* per caller: index of the chunk of the for loop
    si,             \* per caller: index of the next call to submit in the chunk
    response_lst,   \* per caller: execute()'s response_lst (the futures)
    ret,            \* per caller: outcome of the caller's last execute()
    sleeps,         \* per caller: time.sleep calls of the last execute()
    executed,       \* per staged call: how many times a worker started it
    nextId,         \* identity of the next staged call
    budget,         \* calls (queue() or direct) the callers may still make
    sf,             \* per caller: the frame of set_family()
    sfret,          \* per caller: outcome of the caller's last set_family()
    cls,            \* per object: its Python class
    json,           \* per object: BaseObject.__json
    lists,          \* per board: Board.__lists
    cards,          \* per board: Board.__cards
    server,         \* per Trello id: the version of the node that Trello holds
    self,           \* the ModifiedList a query is put to
    entry,          \* the argument of ModifiedList.__getitem__
    qret            \* what the query returned or raised

vars == <<request_pool, chunk_size, threads, pc, key, pool_lst, ci, si,
          response_lst, ret, sleeps, executed, nextId, budget, sf, sfret,
          cls, json, lists, cards, server, self, entry, qret>>

execVars == <<pc, key, pool_lst, ci, si, response_lst, ret, sleeps>>
nodeVars == <<cls, json, lists, cards, server>>
queryVars == <<self, entry, qret>>
famVars == <<sf, sfret>>

\* ------------------------------------------------------------ helpers
Min(a, b) == IF a < b THEN a ELSE b

\* ceil(n / c) for c >= 1
Ceil(n, c) == (n + c - 1) \div c

\* f'{obj.id}__family__'
FamilyKey(o) == o \o "__family__"

FamilyKeys == {FamilyKey(o) : o \in NodeIds}

\* the tuple (func, args, kwargs) that queue() appends; id tells staged calls apart
Call(fn, o, id) == [fn |-> fn, obj |-> o, id |-> id]

\* what a listing request can answer: the ids of `ids`, each at most once
ListingsOf(ids) ==
    {s \in UNION {[1..n -> ids] : n \in 0..MaxChildren} :
        \A i, j \in DOMAIN s : i # j => s[i] # s[j]}

\* the answers to GET /boards/{id}/lists
Listings == ListingsOf(ChildIds)

\* the answers to GET /boards/{id}/cards
CardListings == ListingsOf(CardIds)

\* response.json() for the node `id` while Trello is at version v
Snapshot(id, v) == [id |-> id, name |-> v, desc |-> v]

\* BaseObject.id of the object r
Id(r) == json[r].id

\* the class of a collection element; 0 stands for a value that is no object
\* of the library (an int, a str, a dict)
Kind(r) == IF r = 0 THEN "int" ELSE cls[r]

\* ModifiedList.__init__: type(obj) in self.types for every obj of data
ModifiedListAccepts(kinds) == \A i \in DOMAIN kinds : kinds[i] \in Types

\* a refresh that copies the fetched name into the Record the node holds
RefreshedInPlace(rec, snap) == [rec EXCEPT !.name = snap.name]

\* get_self / update_self: self.__json = response.json()
Refreshed(rec, snap) == snap

\* the value a successful call returns (the response); a listing carries the ids
Result(f) == [id |-> f.call.id, res |-> f.res]

NoRet == [kind |-> "unset", val |-> <<>>]
NoEntry == [form |-> "none"]
NoQret == [kind |-> "unset"]
NoFrame == [phase |-> "none", obj |-> 0, root |-> 0, pre |-> {}, first |-> NoRet]

\* a queue() that starts the key's list afresh on every call
QueueCallAfresh(pool, k, call) ==
    [x \in DOMAIN pool \cup {k} |-> IF x = k THEN <<call>> ELSE pool[x]]

\* App.queue: create the key's list when the key is absent, then append
QueueCall(pool, k, call) ==
    LET base == IF k \in DOMAIN pool
                THEN pool
                ELSE [x \in DOMAIN pool \cup {k} |-> IF x = k THEN <<>> ELSE pool[x]]
    IN  [base EXCEPT ![k] = Append(@, call)]

\* execute.split: lst[i:i+chunk_size] for i in range(0, len(lst), chunk_size)
SplitStarts(lst, c) == {i \in 0..(Len(lst) - 1) : i % c = 0}

\* a split that loses the last, shorter chunk
SplitDropTail(lst, c) ==
    [n \in 1..(Len(lst) \div c) |-> SubSeq(lst, (n - 1) * c + 1, (n - 1) * c + c)]

Split(lst, c) ==
    [n \in 1..Cardinality(SplitStarts(lst, c)) |->
        SubSeq(lst, (n - 1) * c + 1, Min((n - 1) * c + c, Len(lst)))]

\* the flat list execute() split
Flat(chunks) ==
    LET F[n \in 0..Len(chunks)] == IF n = 0 THEN <<>> ELSE F[n - 1] \o chunks[n]
    IN  F[Len(chunks)]

\* a future that counts as finished only when its call returned
DoneWhenOk(f) == f.st = "ok"

\* Future.done(): the call returned or raised
Done(f) == f.st \in {"ok", "err"}

Running(t) == {i \in DOMAIN response_lst[t] : response_lst[t][i].st = "running"}

\* a pool that starts a worker for every submitted call
WorkerFreeAlways(t) == TRUE

\* ThreadPoolExecutor(self.__threads): a submitted call waits for one of the
\* max_workers threads
WorkerFree(t) == Cardinality(Running(t)) < threads

\* leaving the with block: ThreadPoolExecutor.__exit__ is shutdown(wait=True)
PoolScopeExitNoWait(t) == TRUE

PoolScopeExit(t) == \A i \in DOMAIN response_lst[t] : Done(response_lst[t][i])

\* request_pool.pop(key)
PoolKeep(pool, k) == pool

PoolWithout(pool, k) == [x \in DOMAIN pool \ {k} |-> pool[x]]

\* for pool in pool_lst: is there a chunk after the current one
MoreChunksUnlessFailed(t) ==
    /\ ci[t] < Len(pool_lst[t])
    /\ \A i \in DOMAIN response_lst[t] : response_lst[t][i].st # "err"

MoreChunks(t) == ci[t] < Len(pool_lst[t])

Failed(resp) == {i \in DOMAIN resp : resp[i].st = "err"}

FirstFailure(resp) == CHOOSE i \in Failed(resp) : \A j \in Failed(resp) : i <= j

\* [response.result() for response in response_lst]: the list, or the first raise
Collect(resp) ==
    IF Failed(resp) = {}
    THEN [kind |-> "list", val |-> [i \in DOMAIN resp |-> Result(resp[i])]]
    ELSE [kind |-> "raise", val |-> <<Result(resp[FirstFailure(resp)])>>]

\* the state: App's fields (request_pool, chunk_size, threads), the locals of
\* each caller's execute() and set_family(), and the fields of the nodes
TypeOK ==
    /\ DOMAIN request_pool \subseteq (UserKeys \cup FamilyKeys)
    /\ \A k \in DOMAIN request_pool : \A n \in DOMAIN request_pool[k] :
            /\ request_pool[k][n].fn \in {"task", "get_self", "get_lists", "get_cards"}
            /\ request_pool[k][n].id \in 1..IdCap
    /\ chunk_size \in 1..MaxChunk
    /\ threads \in 1..MaxThreads
    /\ pc \in [Callers -> {"off", "idle", "submit", "sleep", "pop"}]
    /\ \A t \in Callers :
            /\ key[t] \in UserKeys \cup FamilyKeys \cup {""}
            /\ ci[t] \in 1..IdCap
            /\ si[t] \in 1..(IdCap + 1)
            /\ ret[t].kind \in {"unset", "running", "None", "list", "raise", "KeyError"}
            /\ sleeps[t] \in 0..Len(pool_lst[t])
            /\ \A i \in DOMAIN response_lst[t] :
                    response_lst[t][i].st \in {"pending", "running", "ok", "err"}
            /\ sf[t].phase \in {"none", "batch1", "batch2"}
            /\ sfret[t] \in {"none", "running", "ok", "raise", "ValueError",
                            "AttributeError"}
    /\ executed \in [1..IdCap -> Nat]
    /\ nextId \in 1..(IdCap + 1)
    /\ budget \in Nat
    /\ DOMAIN cls = DOMAIN json
    /\ \A r \in DOMAIN json :
            /\ cls[r] \in Types
            /\ json[r].id \in NodeIds \cup CardIds
            /\ json[r].name \in 1..MaxVersion
            /\ json[r].desc \in 1..MaxVersion
    /\ \A o \in BoardRefs :
            /\ cls[o] = "Board"
            /\ \A n \in DOMAIN lists[o] : lists[o][n] \in {0} \cup DOMAIN json
            /\ \A n \in DOMAIN cards[o] : cards[o][n] \in DOMAIN json
    /\ server \in 1..MaxVersion

\* ------------------------------------------------------------ execute
\* an execute(k) that reads an absent key as an empty list
ExecuteEnterDefaultEmpty(t, k, pool) ==
    LET lst == IF k \in DOMAIN pool THEN pool[k] ELSE <<>>
    IN  /\ key' = [key EXCEPT ![t] = k]
        /\ pool_lst' = [pool_lst EXCEPT ![t] = Split(lst, chunk_size)]
        /\ response_lst' = [response_lst EXCEPT ![t] = <<>>]
        /\ ci' = [ci EXCEPT ![t] = 1]
        /\ si' = [si EXCEPT ![t] = 1]
        /\ sleeps' = [sleeps EXCEPT ![t] = 0]
        /\ ret' = [ret EXCEPT ![t] = [kind |-> "running", val |-> <<>>]]
        /\ pc' = [pc EXCEPT ![t] =
                IF Len(Split(lst, chunk_size)) = 0 THEN "pop" ELSE "submit"]

\* execute(k) up to the first chunk, reading the pool `pool`
ExecuteEnter(t, k, pool) ==
    IF k \notin DOMAIN pool
    THEN /\ ret' = [ret EXCEPT ![t] = [kind |-> "None", val |-> <<>>]]
         /\ key' = [key EXCEPT ![t] = k]
         /\ pool_lst' = [pool_lst EXCEPT ![t] = <<>>]
         /\ response_lst' = [response_lst EXCEPT ![t] = <<>>]
         /\ sleeps' = [sleeps EXCEPT ![t] = 0]
         /\ UNCHANGED <<pc, ci, si>>
    ELSE /\ key' = [key EXCEPT ![t] = k]
         /\ pool_lst' = [pool_lst EXCEPT ![t] = Split(pool[k], chunk_size)]
         /\ response_lst' = [response_lst EXCEPT ![t] = <<>>]
         /\ ci' = [ci EXCEPT ![t] = 1]
         /\ si' = [si EXCEPT ![t] = 1]
         /\ sleeps' = [sleeps EXCEPT ![t] = 0]
         /\ ret' = [ret EXCEPT ![t] = [kind |-> "running", val |-> <<>>]]
         /\ pc' = [pc EXCEPT ![t] =
                IF Len(Split(pool[k], chunk_size)) = 0 THEN "pop" ELSE "submit"]

Idle(t) == pc[t] = "idle" /\ sf[t].phase = "none"

\* a caller stages one more call under k (queue() has no test of its own: the
\* lookup, the creation of the list and the append are taken as one step)
Queue(t, k) ==
    /\ Idle(t)
    /\ budget > 0
    /\ request_pool' = QueueCall(request_pool, k, Call("task", 0, nextId))
    /\ nextId' = nextId + 1
    /\ budget' = budget - 1
    /\ UNCHANGED <<chunk_size, threads, execVars, executed, famVars, nodeVars, queryVars>>

\* a caller calls execute(k)
Execute(t, k) ==
    /\ Idle(t)
    /\ ExecuteEnter(t, k, request_pool)
    /\ UNCHANGED <<request_pool, chunk_size, threads, executed, nextId, budget,
                   famVars, nodeVars, queryVars>>

\* executor.submit(fn, *args, **kwargs) of the next call of the chunk
Submit(t) ==
    /\ pc[t] = "submit"
    /\ si[t] <= Len(pool_lst[t][ci[t]])
    /\ response_lst' = [response_lst EXCEPT ![t] =
            Append(@, [call |-> pool_lst[t][ci[t]][si[t]], st |-> "pending", res |-> <<>>])]
    /\ si' = [si EXCEPT ![t] = @ + 1]
    /\ UNCHANGED <<request_pool, chunk_size, threads, pc, key, pool_lst, ci, ret,
                   sleeps, executed, nextId, budget, famVars, nodeVars, queryVars>>

\* a free worker of the chunk's pool takes a submitted call
StartCall(t, i) ==
    /\ i \in DOMAIN response_lst[t]
    /\ response_lst[t][i].st = "pending"
    /\ WorkerFree(t)
    /\ response_lst' = [response_lst EXCEPT ![t][i].st = "running"]
    /\ executed' = [executed EXCEPT ![response_lst[t][i].call.id] = @ + 1]
    /\ UNCHANGED <<request_pool, chunk_size, threads, pc, key, pool_lst, ci, si, ret,
                   sleeps, nextId, budget, famVars, nodeVars, queryVars>>

\* the objects [List(self.app, json) for json in response.json()] constructs
Constructed(listing) == [n \in DOMAIN listing |-> Snapshot(listing[n], server)]

\* where the constructor puts them: behind the objects that exist already
NewRefs(listing) == [n \in DOMAIN listing |-> Len(json) + n]

\* a listing that also puts back the Record its node was constructed with
WithConstructedResetting(js, c, listing) ==
    [js EXCEPT ![c.obj] = Snapshot(@.id, 1)] \o Constructed(listing)

\* the Records of all objects after a listing: the constructed ones are new
\* objects, the Record of the listed node is not assigned
WithConstructed(js, c, listing) == js \o Constructed(listing)

\* a listing that extends the collection the board holds
EffectMerge(c, ok, listing) ==
    IF ~ok \/ c.fn = "task"
    THEN UNCHANGED nodeVars
    ELSE IF c.fn = "get_self"
    THEN /\ json' = [json EXCEPT ![c.obj] = Refreshed(@, Snapshot(@.id, server))]
         /\ UNCHANGED <<cls, lists, cards, server>>
    ELSE LET kinds == [n \in DOMAIN listing |->
                            IF c.fn = "get_lists" THEN "List" ELSE "Card"]
         IN  /\ json' = json \o Constructed(listing)
             /\ cls' = cls \o kinds
             /\ IF c.fn = "get_lists"
                THEN /\ lists' = [lists EXCEPT ![c.obj] = @ \o NewRefs(listing)]
                     /\ UNCHANGED cards
                ELSE /\ cards' = [cards EXCEPT ![c.obj] = @ \o NewRefs(listing)]
                     /\ UNCHANGED lists
             /\ UNCHANGED server

\* BaseObject.get_self, Board.get_lists, Board.get_cards: the node changes only
\* on status 200; a listing constructs one object per Record of the response
\* and binds the collection to a new ModifiedList of them
Effect(c, ok, listing) ==
    IF ~ok \/ c.fn = "task"
    THEN UNCHANGED nodeVars
    ELSE IF c.fn = "get_self"
    THEN /\ json' = [json EXCEPT ![c.obj] = Refreshed(@, Snapshot(@.id, server))]
         /\ UNCHANGED <<cls, lists, cards, server>>
    ELSE LET kinds == [n \in DOMAIN listing |->
                            IF c.fn = "get_lists" THEN "List" ELSE "Card"]
         IN  /\ ModifiedListAccepts(kinds)
             /\ json' = WithConstructed(json, c, listing)
             /\ cls' = cls \o kinds
             /\ IF c.fn = "get_lists"
                THEN /\ lists' = [lists EXCEPT ![c.obj] = NewRefs(listing)]
                     /\ UNCHANGED cards
                ELSE /\ cards' = [cards EXCEPT ![c.obj] = NewRefs(listing)]
                     /\ UNCHANGED lists
             /\ UNCHANGED server

\* response.json() of a call that got status 200: the listed ids of a listing,
\* the one Record of a refresh
Bodies(c) ==
    IF c.fn = "get_lists" THEN Listings
    ELSE IF c.fn = "get_cards" THEN CardListings
    ELSE IF c.fn = "get_self" THEN {<<Snapshot(Id(c.obj), server)>>}
    ELSE {<<>>}

\* a listing that empties the collection when its request fails
FinishCallClearing(t, i, ok) ==
    /\ i \in DOMAIN response_lst[t]
    /\ response_lst[t][i].st = "running"
    /\ \E body \in (IF ok THEN Bodies(response_lst[t][i].call) ELSE {<<>>}) :
        /\ response_lst' = [response_lst EXCEPT ![t][i] =
                [@ EXCEPT !.st = IF ok THEN "ok" ELSE "err", !.res = body]]
        /\ IF ~ok /\ response_lst[t][i].call.fn = "get_lists"
           THEN /\ lists' = [lists EXCEPT ![response_lst[t][i].call.obj] = <<>>]
                /\ UNCHANGED <<cls, json, cards, server>>
           ELSE Effect(response_lst[t][i].call, ok, body)
    /\ UNCHANGED <<request_pool, chunk_size, threads, pc, key, pool_lst, ci, si, ret,
                   sleeps, executed, nextId, budget, famVars, queryVars>>

\* the call returns (ok) or raises (APIError) in its worker
FinishCall(t, i, ok) ==
    /\ i \in DOMAIN response_lst[t]
    /\ response_lst[t][i].st = "running"
    /\ \E body \in (IF ok THEN Bodies(response_lst[t][i].call) ELSE {<<>>}) :
        /\ response_lst' = [response_lst EXCEPT ![t][i] =
                [@ EXCEPT !.st = IF ok THEN "ok" ELSE "err", !.res = body]]
        /\ Effect(response_lst[t][i].call, ok, body)
    /\ UNCHANGED <<request_pool, chunk_size, threads, pc, key, pool_lst, ci, si, ret,
                   sleeps, executed, nextId, budget, famVars, queryVars>>

\* the with block ends once the chunk is submitted and its pool has shut down
ExitPool(t) ==
    /\ pc[t] = "submit"
    /\ si[t] > Len(pool_lst[t][ci[t]])
    /\ PoolScopeExit(t)
    /\ pc' = [pc EXCEPT ![t] = "sleep"]
    /\ UNCHANGED <<request_pool, chunk_size, threads, key, pool_lst, ci, si,
                   response_lst, ret, sleeps, executed, nextId, budget, famVars,
                   nodeVars, queryVars>>

\* a pacing delay that is skipped after the last chunk
SleepSkipLast(t) ==
    /\ pc[t] = "sleep"
    /\ IF MoreChunks(t)
       THEN /\ sleeps' = [sleeps EXCEPT ![t] = @ + 1]
            /\ ci' = [ci EXCEPT ![t] = @ + 1]
            /\ si' = [si EXCEPT ![t] = 1]
            /\ pc' = [pc EXCEPT ![t] = "submit"]
       ELSE /\ pc' = [pc EXCEPT ![t] = "pop"]
            /\ UNCHANGED <<ci, si, sleeps>>
    /\ UNCHANGED <<request_pool, chunk_size, threads, key, pool_lst, response_lst,
                   ret, executed, nextId, budget, famVars, nodeVars, queryVars>>

\* time.sleep(api_interval), the last statement of the for body
Sleep(t) ==
    /\ pc[t] = "sleep"
    /\ sleeps' = [sleeps EXCEPT ![t] = @ + 1]
    /\ IF MoreChunks(t)
       THEN /\ ci' = [ci EXCEPT ![t] = @ + 1]
            /\ si' = [si EXCEPT ![t] = 1]
            /\ pc' = [pc EXCEPT ![t] = "submit"]
       ELSE /\ pc' = [pc EXCEPT ![t] = "pop"]
            /\ UNCHANGED <<ci, si>>
    /\ UNCHANGED <<request_pool, chunk_size, threads, key, pool_lst, response_lst,
                   ret, executed, nextId, budget, famVars, nodeVars, queryVars>>

\* an execute() that leaves the key staged when one of its calls has raised
PopReturnKeepOnRaise(t) ==
    /\ pc[t] = "pop"
    /\ \A i \in DOMAIN response_lst[t] : Done(response_lst[t][i])
    /\ IF key[t] \in DOMAIN request_pool
       THEN /\ request_pool' = IF Failed(response_lst[t]) = {}
                                THEN PoolWithout(request_pool, key[t])
                                ELSE request_pool
            /\ ret' = [ret EXCEPT ![t] = Collect(response_lst[t])]
       ELSE /\ ret' = [ret EXCEPT ![t] = [kind |-> "KeyError", val |-> <<>>]]
            /\ UNCHANGED request_pool
    /\ pc' = [pc EXCEPT ![t] = "idle"]
    /\ UNCHANGED <<chunk_size, threads, key, pool_lst, ci, si, response_lst, sleeps,
                   executed, nextId, budget, famVars, nodeVars, queryVars>>

\* request_pool.pop(key), then the results in queueing order
PopReturn(t) ==
    /\ pc[t] = "pop"
    /\ \A i \in DOMAIN response_lst[t] : Done(response_lst[t][i])
    /\ IF key[t] \in DOMAIN request_pool
       THEN /\ request_pool' = PoolWithout(request_pool, key[t])
            /\ ret' = [ret EXCEPT ![t] = Collect(response_lst[t])]
       ELSE /\ ret' = [ret EXCEPT ![t] = [kind |-> "KeyError", val |-> <<>>]]
            /\ UNCHANGED request_pool
    /\ pc' = [pc EXCEPT ![t] = "idle"]
    /\ UNCHANGED <<chunk_size, threads, key, pool_lst, ci, si, response_lst, sleeps,
                   executed, nextId, budget, famVars, nodeVars, queryVars>>

Workers ==
    \E t \in Callers :
        \/ Submit(t)
        \/ \E i \in 1..IdCap : StartCall(t, i)
        \/ \E i \in 1..IdCap, ok \in BOOLEAN : FinishCall(t, i, ok)
        \/ ExitPool(t)
        \/ Sleep(t)
        \/ PopReturn(t)

\* --------------------------------------------------- one caller thread
\* App.__init__ but for the two settings, and the one Board the callers hold
InitObjects(cs) ==
    /\ request_pool = <<>>
    /\ pc = [t \in Callers |-> IF t \in cs THEN "idle" ELSE "off"]
    /\ key = [t \in Callers |-> ""]
    /\ pool_lst = [t \in Callers |-> <<>>]
    /\ ci = [t \in Callers |-> 1]
    /\ si = [t \in Callers |-> 1]
    /\ response_lst = [t \in Callers |-> <<>>]
    /\ ret = [t \in Callers |-> NoRet]
    /\ sleeps = [t \in Callers |-> 0]
    /\ executed = [i \in 1..IdCap |-> 0]
    /\ nextId = 1
    /\ sf = [t \in Callers |-> NoFrame]
    /\ sfret = [t \in Callers |-> "none"]
    /\ cls = <<"Board">>
    /\ json = <<Snapshot("b", 1)>>
    /\ lists = [o \in BoardRefs |-> <<>>]
    /\ cards = [o \in BoardRefs |-> <<>>]
    /\ server = 1

\* no query is put
NoQuery == self = <<>> /\ entry = NoEntry /\ qret = NoQret

InitApp(cs) ==
    /\ chunk_size \in 1..MaxChunk
    /\ threads \in 1..MaxThreads
    /\ InitObjects(cs)
    /\ NoQuery

Init == InitApp({1}) /\ budget = MaxCalls

Next ==
    \/ \E t \in Callers, k \in UserKeys : Queue(t, k)
    \/ \E t \in Callers, k \in UserKeys : Execute(t, k)
    \/ Workers

Spec == Init /\ [][Next]_vars

\* the caller's thread and the pool's workers are scheduled, every deferred
\* call comes back and every time.sleep ends: a step of the executor that stays
\* possible is taken
Fairness == \A t \in Callers :
    /\ WF_vars(Submit(t))
    /\ WF_vars(\E i \in 1..IdCap : StartCall(t, i))
    /\ WF_vars(\E i \in 1..IdCap, ok \in BOOLEAN : FinishCall(t, i, ok))
    /\ WF_vars(ExitPool(t))
    /\ WF_vars(Sleep(t))
    /\ WF_vars(PopReturn(t))

SpecLive == Init /\ [][Next]_vars /\ Fairness

\* ------------------------------------------------------------ set_family
\* for obj in obj.lists: self.queue(f'{obj.id}__family__', obj.get_self)
QueueChildren(pool, kids, first) ==
    LET F[n \in 0..Len(kids)] ==
            IF n = 0
            THEN pool
            ELSE QueueCall(F[n - 1], FamilyKey(Id(kids[n])),
                           Call("get_self", kids[n], first + n - 1))
    IN  F[Len(kids)]

\* the object `obj` names after the for loop: the loop variable rebinds it
ObjAfterLoop(o, kids) == IF Len(kids) = 0 THEN o ELSE kids[Len(kids)]

Raised(r) == r.kind \in {"raise", "KeyError"}

\* BaseObject.trello_class as the constructors of Board, List and Card set it
TrelloClass(kind) ==
    CASE kind = "Board" -> "boards"
      [] kind = "List" -> "lists"
      [] kind = "Card" -> "cards"

\* the methods and properties set_family reads that each class defines
Attributes(kind) ==
    CASE kind = "Board" -> {"get_self", "get_lists", "get_cards", "get_checklists",
                            "lists", "cards", "checklists"}
      [] kind = "List" -> {"get_self", "get_cards", "cards"}
      [] kind = "Card" -> {"get_self", "get_checklists", "checklists"}

\* fnc_sw = {'boards': obj.get_lists, 'lists': obj.get_cards,
\*           'cards': obj.get_checklists}: the attribute each entry reads
fnc_sw == [boards |-> "get_lists", lists |-> "get_cards", cards |-> "get_checklists"]

\* a dict display evaluates every value: it is built only when obj has all of
\* the attributes it reads, else the lookup raises AttributeError
DictBuilt(sw, o) == {sw[c] : c \in DOMAIN sw} \subseteq Attributes(Kind(o))

\* set_family(obj) up to its first execute(): the reserved-key test, the two
\* queue() calls and the entry of execute()
SetFamilyStart(t, o) ==
    /\ Idle(t)
    /\ nextId + 1 + MaxChildren + budget <= FamilyIds
    /\ IF FamilyKey(Id(o)) \in DOMAIN request_pool
       THEN /\ sfret' = [sfret EXCEPT ![t] = "ValueError"]
            /\ UNCHANGED <<request_pool, nextId, sf, execVars>>
       ELSE IF ~DictBuilt(fnc_sw, o)
       THEN /\ sfret' = [sfret EXCEPT ![t] = "AttributeError"]
            /\ UNCHANGED <<request_pool, nextId, sf, execVars>>
       ELSE LET p1 == QueueCall(request_pool, FamilyKey(Id(o)),
                                Call("get_self", o, nextId))
                p2 == QueueCall(p1, FamilyKey(Id(o)),
                                Call(fnc_sw[TrelloClass(Kind(o))], o, nextId + 1))
            IN  /\ request_pool' = p2
                /\ nextId' = nextId + 2
                /\ sf' = [sf EXCEPT ![t] = [phase |-> "batch1", obj |-> o, root |-> o,
                                            pre |-> DOMAIN request_pool, first |-> NoRet]]
                /\ sfret' = [sfret EXCEPT ![t] = "running"]
                /\ ExecuteEnter(t, FamilyKey(Id(o)), p2)
    /\ UNCHANGED <<chunk_size, threads, executed, budget, nodeVars, queryVars>>

\* the first execute() is back: stage one get_self per child, each under the
\* child's own family key, and enter the second execute()
SetFamilyContinue(t) ==
    /\ sf[t].phase = "batch1"
    /\ pc[t] = "idle"
    /\ IF Raised(ret[t])
       THEN /\ sf' = [sf EXCEPT ![t].phase = "none"]
            /\ sfret' = [sfret EXCEPT ![t] = "raise"]
            /\ UNCHANGED <<request_pool, nextId, execVars>>
       ELSE LET kids == lists[sf[t].obj]
                p == QueueChildren(request_pool, kids, nextId)
                o2 == ObjAfterLoop(sf[t].obj, kids)
            IN  /\ request_pool' = p
                /\ nextId' = nextId + Len(kids)
                /\ sf' = [sf EXCEPT ![t].phase = "batch2", ![t].obj = o2,
                                    ![t].first = ret[t]]
                /\ ExecuteEnter(t, FamilyKey(Id(o2)), p)
                /\ UNCHANGED sfret
    /\ UNCHANGED <<chunk_size, threads, executed, budget, nodeVars, queryVars>>

\* the second execute() is back: set_family returns, or raises what it raised
SetFamilyReturn(t) ==
    /\ sf[t].phase = "batch2"
    /\ pc[t] = "idle"
    /\ sf' = [sf EXCEPT ![t].phase = "none"]
    /\ sfret' = [sfret EXCEPT ![t] = IF Raised(ret[t]) THEN "raise" ELSE "ok"]
    /\ UNCHANGED <<request_pool, chunk_size, threads, execVars, executed, nextId,
                   budget, nodeVars, queryVars>>

\* ------------------------------ two caller threads on the same key space
InitRace == InitApp({1, 2}) /\ budget = MaxRaceStaged + 1

SpecRace == InitRace /\ [][Next]_vars

\* ------------------------------------ one caller thread and set_family
InitFamily == InitApp({1}) /\ budget = MaxRaceStaged

NextFamily ==
    \/ \E k \in FamilyKeys : Queue(1, k)
    \/ \E k \in FamilyKeys : Execute(1, k)
    \/ \E o \in BoardRefs : SetFamilyStart(1, o)
    \/ SetFamilyContinue(1)
    \/ SetFamilyReturn(1)
    \/ Workers

SpecFamily == InitFamily /\ [][NextFamily]_vars

\* -------------------- set_family in one thread, queue() in a second one
InitFamilyRace == InitApp({1, 2}) /\ budget = MaxRaceStaged

NextFamilyRace ==
    \/ \E k \in FamilyKeys : Queue(2, k)
    \/ \E o \in BoardRefs : SetFamilyStart(1, o)
    \/ SetFamilyContinue(1)
    \/ SetFamilyReturn(1)
    \/ Workers

SpecFamilyRace == InitFamilyRace /\ [][NextFamilyRace]_vars

\* ------------------------------------------- the operations of a node
\* the objects that can exist: the board and what the listings construct
RefCap == 1 + MaxChildren * (MaxNodeCalls + 1)

\* a caller stages obj.get_self, board.get_lists or board.get_cards under k
QueueNode(t, k, fn, o) ==
    /\ Idle(t)
    /\ budget > 0
    /\ o \in DOMAIN json
    /\ fn # "get_self" => o \in BoardRefs
    /\ request_pool' = QueueCall(request_pool, k, Call(fn, o, nextId))
    /\ nextId' = nextId + 1
    /\ budget' = budget - 1
    /\ UNCHANGED <<chunk_size, threads, execVars, executed, famVars, nodeVars,
                   queryVars>>

\* somebody changes the board in Trello: later responses carry the new version
ServerUpdate ==
    /\ server < MaxVersion
    /\ server' = server + 1
    /\ UNCHANGED <<request_pool, chunk_size, threads, execVars, executed, nextId,
                   budget, famVars, cls, json, lists, cards, queryVars>>

\* ------- set_family on the board and on the lists it has fetched, while
\* the board changes in Trello
InitFamilyTree == InitApp({1}) /\ budget = 0

NextFamilyTree ==
    \/ \E o \in 1..(1 + 2 * MaxChildren) : o \in DOMAIN json /\ SetFamilyStart(1, o)
    \/ SetFamilyContinue(1)
    \/ SetFamilyReturn(1)
    \/ ServerUpdate
    \/ Workers

SpecFamilyTree == InitFamilyTree /\ [][NextFamilyTree]_vars

\* Board.create_list, called directly: on status 200 the new List is appended
\* to the collection the board holds; any other status raises in App.request
CreateList(t, o, id, ok) ==
    /\ Idle(t)
    /\ Len(lists[o]) < MaxChildren
    /\ Len(json) < RefCap
    /\ \A n \in DOMAIN lists[o] : lists[o][n] # 0 => Id(lists[o][n]) # id
    /\ IF ok
       THEN /\ json' = Append(json, Snapshot(id, server))
            /\ cls' = Append(cls, "List")
            /\ lists' = [lists EXCEPT ![o] = Append(@, Len(json) + 1)]
       ELSE UNCHANGED <<json, cls, lists>>
    /\ UNCHANGED <<request_pool, chunk_size, threads, execVars, executed, nextId,
                   budget, famVars, cards, server, queryVars>>

\* board.lists.append(x) with x no object of the library: ModifiedList takes
\* append from list, which takes any value
UserAppend(t, o) ==
    /\ Idle(t)
    /\ Len(lists[o]) < MaxChildren
    /\ lists' = [lists EXCEPT ![o] = Append(@, 0)]
    /\ UNCHANGED <<request_pool, chunk_size, threads, execVars, executed, nextId,
                   budget, famVars, cls, json, cards, server, queryVars>>

\* obj.get_self(), board.get_lists() or board.get_cards() called directly, in
\* the caller's thread
CallDirect(t, fn, o, ok) ==
    /\ Idle(t)
    /\ o \in DOMAIN json
    /\ fn # "get_self" => o \in BoardRefs
    /\ budget > 0
    /\ budget' = budget - 1
    /\ \E body \in (IF ok THEN Bodies(Call(fn, o, 0)) ELSE {<<>>}) :
            Effect(Call(fn, o, 0), ok, body)
    /\ UNCHANGED <<request_pool, chunk_size, threads, execVars, executed, nextId,
                   famVars, queryVars>>

\* ---------------------- node operations staged and run by one caller
InitNode == InitApp({1}) /\ budget = MaxNodeCalls

NextNode ==
    \/ \E fn \in {"get_self", "get_lists", "get_cards"}, o \in 1..RefCap :
            QueueNode(1, "k1", fn, o)
    \/ Execute(1, "k1")
    \/ ServerUpdate
    \/ Workers

SpecNode == InitNode /\ [][NextNode]_vars

\* ------------- one caller that fetches, creates and appends directly
InitCollection ==
    /\ chunk_size = MaxChunk
    /\ threads = MaxThreads
    /\ InitObjects({1})
    /\ NoQuery
    /\ budget = MaxNodeCalls

NextCollection ==
    \/ \E fn \in {"get_self", "get_lists", "get_cards"}, o \in 1..RefCap, ok \in BOOLEAN :
            CallDirect(1, fn, o, ok)
    \/ \E o \in BoardRefs, id \in ChildIds, ok \in BOOLEAN : CreateList(1, o, id, ok)
    \/ \E o \in BoardRefs : UserAppend(1, o)
    \/ ServerUpdate

SpecCollection == InitCollection /\ [][NextCollection]_vars

\* ------------------------------------------- ModifiedList.__getitem__
\* A Record of the queried collection is a dict with an id and the fields of
\* Fields; an element is an object that holds its Record in json.
Fields == {"status", "name"}
FieldValues == {"open", "done"}
EntityIds == <<"e1", "e2", "e3", "e4">>

Records(i) == [id : {EntityIds[i]}, status : FieldValues, name : FieldValues]

Entity(js) == [cls |-> "Card", json |-> js]

\* the collections: n objects, the i-th with the i-th id
Collections ==
    UNION {{s \in [1..n -> {Entity(js) : js \in UNION {Records(i) : i \in 1..n}}] :
                \A i \in 1..n : s[i].json.id = EntityIds[i]} : n \in 0..MaxLen}

SeqsUpTo(S, n) == UNION {[1..m -> S] : m \in 0..n}

\* what a filter mapping can associate with a field: a str, a list of str, or
\* a value that is neither (an int)
FilterValues ==
    {[type |-> "str", items |-> <<v>>] : v \in FieldValues}
        \cup {[type |-> "list", items |-> l] :
                l \in {<<>>, <<"open">>, <<"done">>, <<"open", "done">>}}
        \cup {[type |-> "int", items |-> <<>>]}

\* the filter mappings, as their items() in insertion order
Filters ==
    {f \in SeqsUpTo([key : Fields, values : FilterValues], Cardinality(Fields)) :
        \A i, j \in DOMAIN f : i # j => f[i].key # f[j].key}

KeyTuples == SeqsUpTo(Fields, MaxKeys)

\* the arguments of __getitem__: a str, a tuple of str, a dict, and a tuple of
\* a dict and str
Entries ==
    {[form |-> "str", filter |-> <<>>, keys |-> <<k>>] : k \in Fields}
        \cup {[form |-> "tuple", filter |-> <<>>, keys |-> ks] : ks \in KeyTuples}
        \cup {[form |-> "dict", filter |-> f, keys |-> <<>>] : f \in Filters}
        \cup {[form |-> "dictkeys", filter |-> f, keys |-> ks] :
                f \in Filters, ks \in KeyTuples}

TypeError == [kind |-> "TypeError", val |-> <<>>]

\* if isinstance(values, str): values = [values]
AsList(values) ==
    IF values.type = "str" THEN [type |-> "list", items |-> values.items] ELSE values

\* obj.json[key] in values
Among(v, items) == \E n \in DOMAIN items : items[n] = v

\* an inner loop that lets an object pass on any one field of the mapping
ScanAny(filter, js) ==
    IF \E n \in DOMAIN filter : AsList(filter[n].values).type # "list"
    THEN "raise"
    ELSE IF \E n \in DOMAIN filter :
                Among(js[filter[n].key], AsList(filter[n].values).items)
    THEN "append"
    ELSE "skip"

\* the inner loop, for key, values in entry.items(), on the Record js: it
\* raises, leaves appnd True ("append") or breaks with appnd False ("skip")
Scan(filter, js) ==
    LET F[n \in 0..Len(filter)] ==
            IF n = 0 THEN "append"
            ELSE IF F[n - 1] # "append" THEN F[n - 1]
            ELSE IF AsList(filter[n].values).type # "list" THEN "raise"
            ELSE IF ~Among(js[filter[n].key], AsList(filter[n].values).items)
                 THEN "skip"
            ELSE "append"
    IN  F[Len(filter)]

\* the outer loop, for obj in self, raised
ScanRaises(coll, filter) == \E i \in DOMAIN coll : Scan(filter, coll[i].json) = "raise"

\* the results list of the outer loop when it did not raise
Appended(coll, filter) == SelectSeq(coll, LAMBDA o : Scan(filter, o.json) = "append")

\* a projection that keeps the whole Record
PartialAll(js, keys) == js

\* {key: val for key, val in js.items() if key in entry[1:]}
Partial(js, keys) ==
    [k \in {x \in DOMAIN js : \E n \in DOMAIN keys : keys[n] = x} |-> js[k]]

\* self[key]: tuple(obj.json[entry] for obj in self)
GetItemStr(coll, e) ==
    [kind |-> "tuple", val |-> [i \in DOMAIN coll |-> coll[i].json[e.keys[1]]]]

\* a projection that hands out the only tuple of a one-element collection
GetItemTupleUnwrapped(coll, e) ==
    LET results == [i \in DOMAIN coll |->
                        [n \in DOMAIN e.keys |-> coll[i].json[e.keys[n]]]]
    IN  IF Len(results) = 1
        THEN [kind |-> "tuple", val |-> results[1]]
        ELSE [kind |-> "list", val |-> results]

\* self[key1, key2, ...]: [tuple(obj.json[item] for item in entry) for obj in self]
GetItemTuple(coll, e) ==
    [kind |-> "list",
     val |-> [i \in DOMAIN coll |->
                [n \in DOMAIN e.keys |-> coll[i].json[e.keys[n]]]]]

\* a filter that collects obj.json in place of obj
GetItemDictRecords(coll, e) ==
    IF ScanRaises(coll, e.filter)
    THEN TypeError
    ELSE LET passed == Appended(coll, e.filter)
             results == [i \in DOMAIN passed |-> passed[i].json]
         IN  IF Len(results) = 1
             THEN [kind |-> "dict", val |-> results[1]]
             ELSE [kind |-> "list", val |-> results]

\* self[{...}]: the objects that pass the filter, the only one by itself
GetItemDict(coll, e) ==
    IF ScanRaises(coll, e.filter)
    THEN TypeError
    ELSE LET results == Appended(coll, e.filter)
         IN  IF Len(results) = 1
             THEN [kind |-> "object", val |-> results[1]]
             ELSE [kind |-> "list", val |-> results]

\* a filter followed by keys that returns a list whatever the matches are
GetItemDictKeysWrapped(coll, e) ==
    IF ScanRaises(coll, e.filter)
    THEN TypeError
    ELSE LET passed == Appended(coll, e.filter)
         IN  [kind |-> "list",
              val |-> [i \in DOMAIN passed |-> Partial(passed[i].json, e.keys)]]

\* self[{...}, key1, ...]: the partial Records of the objects that pass the
\* filter; the only one by itself, and by its value when one key is asked for
GetItemDictKeys(coll, e) ==
    IF ScanRaises(coll, e.filter)
    THEN TypeError
    ELSE LET passed == Appended(coll, e.filter)
             results == [i \in DOMAIN passed |-> Partial(passed[i].json, e.keys)]
         IN  IF Len(results) = 1
             THEN IF Len(e.keys) = 1
                  THEN [kind |-> "value", val |-> results[1][e.keys[Len(e.keys)]]]
                  ELSE [kind |-> "dict", val |-> results[1]]
             ELSE [kind |-> "list", val |-> results]

\* the branch of __getitem__ that isinstance() selects
GetItemOf(coll, e) ==
    IF e.form = "str" THEN GetItemStr(coll, e)
    ELSE IF e.form = "tuple" THEN GetItemTuple(coll, e)
    ELSE IF e.form = "dict" THEN GetItemDict(coll, e)
    ELSE GetItemDictKeys(coll, e)

\* the caller evaluates self[entry]
GetItem(form) ==
    /\ qret = NoQret
    /\ entry.form = form
    /\ qret' = GetItemOf(self, entry)
    /\ UNCHANGED <<request_pool, chunk_size, threads, execVars, executed, nextId,
                   budget, famVars, nodeVars, self, entry>>

\* a collection and an argument; the App beside them stays idle
InitQuery ==
    /\ chunk_size = MaxChunk
    /\ threads = MaxThreads
    /\ InitObjects({})
    /\ budget = 0
    /\ self \in Collections
    /\ entry \in Entries
    /\ qret = NoQret

NextQuery ==
    \/ GetItem("str")
    \/ GetItem("tuple")
    \/ GetItem("dict")
    \/ GetItem("dictkeys")

SpecQuery == InitQuery /\ [][NextQuery]_vars

\* ------------------------------------------------------------- claims
\* the step on which execute() pops the key and returns or raises
Returns(t) == pc[t] = "pop" /\ pc'[t] = "idle" /\ key[t] \in DOMAIN request_pool

\* execute() ran a batch to its end
Returned(t) == pc[t] = "idle" /\ ret[t].kind \in {"list", "raise"}

\* the chunk of the i-th staged call
ChunkOf(i) == ((i - 1) \div chunk_size) + 1

\* C1 (as amended): when execute(key) returns with N >= 1 calls staged under
\* the key and none of them raised, it returns a list of exactly N results whose
\* i-th element is the result of the i-th staged call, whatever the chunk size
\* and the order in which the workers finished.
C1_OrderedResults ==
    [][\A t \in Callers :
        (Returns(t) /\ Failed(response_lst[t]) = {}) =>
            LET staged == request_pool[key[t]]
            IN  /\ ret'[t].kind = "list"
                /\ Len(ret'[t].val) = Len(staged)
                /\ \A i \in DOMAIN staged :
                    /\ ret'[t].val[i].id = staged[i].id
                    /\ ret'[t].val[i] = Result(response_lst[t][i])
                    /\ response_lst[t][i].call = staged[i]]_vars

\* C1 witness: a batch of more calls than one chunk holds returned its list
C1_Witness ==
    /\ pc[1] = "idle"
    /\ ret[1].kind = "list"
    /\ Len(ret[1].val) = MaxCalls
    /\ chunk_size < MaxCalls

\* C1 as written: every execute(key), for every N >= 0, returns a list of
\* exactly N results.
C1_Original ==
    \A t \in Callers :
        (pc[t] = "idle" /\ ret[t].kind # "unset") =>
            /\ ret[t].kind = "list"
            /\ Len(ret[t].val) = Len(Flat(pool_lst[t]))

\* C2 (as amended): for N staged calls and chunk size C one execute(key) issues
\* exactly ceil(N/C) chunks and sleeps exactly ceil(N/C) times: once after the
\* pool scope of every chunk, the last chunk included.
C2_ChunksAndDelays ==
    [][\A t \in Callers :
        /\ Returns(t) =>
            LET n == Len(request_pool[key[t]])
            IN  /\ Len(pool_lst[t]) = Ceil(n, chunk_size)
                /\ ci[t] = Ceil(n, chunk_size)
                /\ sleeps[t] = Ceil(n, chunk_size)
        /\ (pc[t] = "sleep" /\ sleeps'[t] # sleeps[t]) =>
            /\ sleeps[t] = ci[t] - 1
            /\ \A i \in DOMAIN response_lst[t] : Done(response_lst[t][i])
            /\ Len(response_lst[t]) =
                    Min(ci[t] * chunk_size, Len(request_pool[key[t]]))]_vars

\* C2 witness: a batch of two chunks or more returned
C2_Witness == Returned(1) /\ Len(pool_lst[1]) >= 2 /\ sleeps[1] = Len(pool_lst[1])

\* C2 as written: the delay is invoked ceil(N/C) - 1 times, skipped after the
\* last chunk.
C2_Original ==
    \A t \in Callers :
        Returned(t) => sleeps[t] = Ceil(Len(Flat(pool_lst[t])), chunk_size) - 1

\* the step on which a caller calls execute(key) on a key with no staged entries
RunsAbsent(t) ==
    /\ Idle(t)
    /\ key'[t] \notin DOMAIN request_pool
    /\ <<key'[t], ret'[t], pc'[t]>> # <<key[t], ret[t], pc[t]>>

\* C3 (as amended): execute(key) on a key with no staged entries (never
\* populated, or drained and not populated again) returns None without raising;
\* it executes no call and leaves the pool as it was.
C3_AbsentKeyReturnsNone ==
    [][\A t \in Callers :
        RunsAbsent(t) =>
            /\ ret'[t].kind = "None"
            /\ pc'[t] = "idle"
            /\ response_lst'[t] = <<>>
            /\ executed' = executed
            /\ request_pool' = request_pool]_vars

\* C3 witness: a key was drained by one execute() and then run again
C3_Witness ==
    /\ pc[1] = "idle"
    /\ ret[1].kind = "None"
    /\ key[1] \notin DOMAIN request_pool
    /\ \E i \in 1..IdCap : executed[i] = 1

\* C3 as written: execute(key) on a key with no staged entries fails with an
\* error (QueueNotFoundError); it never returns normally.
C3_Original == \A t \in Callers : ret[t].kind # "None"

\* C4: across any sequence of queue() and execute() calls of one thread every
\* staged call is executed at most once.
C4_AtMostOnce == \A i \in 1..IdCap : executed[i] <= 1

\* C4 witness: a drained key is run a second time while its calls have run once
C4_Witness ==
    /\ ret[1].kind = "None"
    /\ pool_lst[1] = <<>>
    /\ \E i \in 1..IdCap : executed[i] = 1 /\ i < nextId
    /\ \A i \in 1..IdCap : i < nextId =>
            (executed[i] = 1 \/ \E k \in DOMAIN request_pool :
                \E n \in DOMAIN request_pool[k] : request_pool[k][n].id = i)

\* C5: within one execute(key) no call of a later chunk is started before
\* every call of the earlier chunks has completed, ok or with an error.
C5_ChunkBarrier ==
    \A t \in Callers : \A i, j \in DOMAIN response_lst[t] :
        (ChunkOf(i) < ChunkOf(j) /\ response_lst[t][j].st # "pending") =>
            Done(response_lst[t][i])

\* C5 witness: a call of the second chunk runs
C5_Witness ==
    \E j \in DOMAIN response_lst[1] :
        ChunkOf(j) >= 2 /\ response_lst[1][j].st = "running"

\* C6: when a staged call raises, every call staged under the key has still
\* been executed to completion when execute(key) raises, and what it raises is
\* the failure of the first failing call in queueing order.
C6_FailureAfterAll ==
    \A t \in Callers :
        /\ (pc[t] = "idle" /\ ret[t].kind = "raise") =>
            LET staged == Flat(pool_lst[t])
            IN  /\ Len(response_lst[t]) = Len(staged)
                /\ \A i \in DOMAIN staged :
                    /\ Done(response_lst[t][i])
                    /\ executed[staged[i].id] >= 1
                /\ \E i \in DOMAIN staged :
                    /\ response_lst[t][i].st = "err"
                    /\ \A j \in 1..(i - 1) : response_lst[t][j].st = "ok"
                    /\ ret[t].val = <<Result(response_lst[t][i])>>
        /\ (pc[t] = "idle" /\ ret[t].kind = "list") =>
            \A i \in DOMAIN response_lst[t] : response_lst[t][i].st = "ok"

\* C6 witness: a call of the first chunk raised, calls after it in the same and
\* in a later chunk ran to completion, and execute() raised
C6_Witness ==
    /\ pc[1] = "idle"
    /\ ret[1].kind = "raise"
    /\ Len(pool_lst[1]) >= 2
    /\ response_lst[1][1].st = "err"
    /\ response_lst[1][Len(response_lst[1])].st = "ok"

\* set_family() of caller t came back without raising
FamilyDone(t) == sf[t].phase = "none" /\ sfret[t] = "ok"

\* C7: set_family refuses to start when a key it stages calls under is already
\* populated, the node's own family key or the family key of one of its
\* children: a set_family that was called while such a key was populated
\* stages no call under it.
C7_RefusesPopulatedKeys ==
    [][\A t \in Callers :
        /\ (Idle(t) /\ sf'[t].phase = "batch1") =>
                key'[t] \notin DOMAIN request_pool
        /\ (sf[t].phase = "batch1" /\ sf'[t].phase = "batch2") =>
                \A n \in DOMAIN lists[sf[t].obj] :
                    FamilyKey(Id(lists[sf[t].obj][n])) \notin sf[t].pre]_vars

\* C8: a set_family that comes back normally has run two batches: the first of
\* exactly the self-refresh and the child listing, the second of exactly one
\* refresh per listed child, every listed child refreshed once; the child
\* collection has the size the listing reported.
C8_TwoBatches ==
    [][\A t \in Callers :
        (sf[t].phase = "batch2" /\ FamilyDone(t)') =>
            LET o == sf[t].root
                kids == lists[o]
                second == Flat(pool_lst[t])
            IN  /\ sf[t].first.kind = "list"
                /\ Len(sf[t].first.val) = 2
                /\ Len(kids) = Len(sf[t].first.val[2].res)
                /\ Len(second) = Len(kids)
                /\ \A n \in DOMAIN kids :
                    /\ second[n].fn = "get_self"
                    /\ second[n].obj = kids[n]
                    /\ executed[second[n].id] = 1]_vars

\* caller t is inside an execute() that set_family started
FamilyInFlight(t) == sf[t].phase # "none" /\ pc[t] # "idle"

\* C9: while a batch of a set_family is in flight, queue() under the key of that
\* batch is rejected and the key's list stays as it is (until the batch itself
\* removes the key).
C9_ReservedKeyRejected ==
    [][\A t \in Callers :
        (FamilyInFlight(t) /\ key[t] \in DOMAIN request_pool
                           /\ key[t] \in DOMAIN request_pool') =>
            request_pool'[key[t]] = request_pool[key[t]]]_vars

\* caller t is inside execute()
InFlight(t) == pc[t] \in {"submit", "sleep", "pop"}

\* C10: the batch that drains a key owns it: while execute(k) runs in one
\* thread, an execute(k) of a second thread runs none of its calls (no staged
\* call is executed twice) and no queue() under k takes effect (the key's list
\* is the list the batch drained).
C10_ExclusiveOwner ==
    /\ \A i \in 1..IdCap : executed[i] < 2
    /\ \A t \in Callers :
        (InFlight(t) /\ key[t] \in DOMAIN request_pool) =>
            request_pool[key[t]] = Flat(pool_lst[t])
    /\ \A t, u \in Callers :
        (t # u /\ InFlight(t) /\ InFlight(u)) => key[t] # key[u]

\* ----------------------------------------------- claims on the queries
\* the Record js has, for every field of the mapping, a value among the
\* field's accepted values (a bare string accepts itself)
Satisfies(js, f) ==
    \A n \in DOMAIN f :
        /\ f[n].values.type \in {"str", "list"}
        /\ \E m \in DOMAIN f[n].values.items : f[n].values.items[m] = js[f[n].key]

\* the positions of the elements of the collection that match the mapping
Matching(coll, f) == {i \in DOMAIN coll : Satisfies(coll[i].json, f)}

\* the query was a filter, alone or followed by keys, and it returned
Filtered == entry.form \in {"dict", "dictkeys"} /\ qret.kind \notin {"unset", "TypeError"}

\* the n-th match in collection order
NthMatch(coll, f, n) ==
    CHOOSE i \in Matching(coll, f) : Cardinality({j \in Matching(coll, f) : j <= i}) = n

\* C11: a filter (a mapping, or a mapping followed by keys) that matches
\* exactly one element returns that one by itself (the element, its partial
\* Record, or its one projected value when one key is asked for); with no
\* match or with two or more it returns a sequence with one entry per match.
C11_Cardinality ==
    Filtered =>
        LET hits == Matching(self, entry.filter)
            one == CHOOSE i \in hits : TRUE
        IN  IF Cardinality(hits) = 1
            THEN IF entry.form = "dict"
                 THEN qret.kind = "object" /\ qret.val = self[one]
                 ELSE IF Len(entry.keys) = 1
                 THEN qret.kind = "value" /\ qret.val = self[one].json[entry.keys[1]]
                 ELSE /\ qret.kind = "dict"
                      /\ \A k \in DOMAIN qret.val : qret.val[k] = self[one].json[k]
            ELSE /\ qret.kind = "list"
                 /\ Len(qret.val) = Cardinality(hits)
                 /\ \A n \in DOMAIN qret.val : \E i \in hits :
                        IF entry.form = "dict"
                        THEN qret.val[n] = self[i]
                        ELSE \A k \in DOMAIN qret.val[n] :
                                qret.val[n][k] = self[i].json[k]
                 /\ entry.form = "dict" =>
                        \A i \in hits : \E n \in DOMAIN qret.val : qret.val[n] = self[i]

\* C11 witness: of three elements one passes a filter that is followed by one
\* key, and the query returned its value
C11_Witness ==
    /\ entry.form = "dictkeys"
    /\ Len(self) = 3
    /\ Cardinality(Matching(self, entry.filter)) = 1
    /\ Len(entry.keys) = 1
    /\ qret.kind = "value"

\* what a filter returned, as a sequence: the list, or the one result it unwrapped
AsSeq(r) == IF r.kind = "list" THEN r.val ELSE <<r.val>>

\* C12: a mapping filter selects exactly the elements whose Record has, for
\* every field of the mapping, a value in that field's list of accepted values;
\* the selected elements come in collection order, each once.
C12_FilterSelects ==
    (entry.form = "dict" /\ Filtered) =>
        LET hits == Matching(self, entry.filter)
            res == AsSeq(qret)
        IN  /\ Len(res) = Cardinality(hits)
            /\ \A n \in DOMAIN res : res[n] = self[NthMatch(self, entry.filter, n)]
            /\ \A m, n \in DOMAIN res : m # n => res[m] # res[n]

\* C12 witness: a mapping of two fields, one of them with two accepted values,
\* selected the first and the third of three elements
C12_Witness ==
    /\ entry.form = "dict"
    /\ Len(entry.filter) = 2
    /\ \E n \in DOMAIN entry.filter : Len(entry.filter[n].values.items) = 2
    /\ Len(self) = 3
    /\ Matching(self, entry.filter) = {1, 3}
    /\ qret.kind = "list"
    /\ qret.val = <<self[1], self[3]>>

\* C13 (as amended): a mapping-only filter returns the matching elements
\* themselves, the objects of the collection, whose Records are reached through
\* json: a list of objects with no match or with two or more, the one object
\* with exactly one match.
C13_ReturnsObjects ==
    (entry.form = "dict" /\ Filtered) =>
        LET res == AsSeq(qret)
        IN  /\ qret.kind \in {"object", "list"}
            /\ \A n \in DOMAIN res :
                /\ DOMAIN res[n] = {"cls", "json"}
                /\ res[n].cls \in Types
                /\ res[n] \in {self[i] : i \in DOMAIN self}
                /\ Satisfies(res[n].json, entry.filter)

\* C13 witness: two of three elements match and the filter returned a list of
\* the two objects
C13_Witness ==
    /\ entry.form = "dict"
    /\ Len(self) = 3
    /\ Cardinality(Matching(self, entry.filter)) = 2
    /\ qret.kind = "list"
    /\ Len(qret.val) = 2
    /\ qret.val[1].cls = "Card"

\* C13 as written: a mapping-only filter returns the Records of the matching
\* elements, a sequence of Records or the one Record, not the objects.
C13_Original ==
    (entry.form = "dict" /\ Filtered) =>
        \A n \in DOMAIN AsSeq(qret) :
            AsSeq(qret)[n] = self[NthMatch(self, entry.filter, n)].json

\* the mapping associates some field with a value that is neither str nor list
Invalid(f) == \E n \in DOMAIN f : f[n].values.type \notin {"str", "list"}

\* the mapping with every bare string written as the list that holds it
Listed(f) ==
    [n \in DOMAIN f |->
        IF f[n].values.type = "str"
        THEN [key |-> f[n].key, values |-> [type |-> "list", items |-> f[n].values.items]]
        ELSE f[n]]

\* C14: a filter value that is a bare string is treated as the one-element
\* list that holds it, and a mapping in which some field's value is neither a
\* string nor a list makes the query fail with TypeError, for every collection
\* (the empty one too) and whatever the other fields of the mapping match.
C14_InvalidFilterRaises ==
    (entry.form \in {"dict", "dictkeys"} /\ qret.kind # "unset") =>
        /\ qret = GetItemOf(self, [entry EXCEPT !.filter = Listed(@)])
        /\ Invalid(entry.filter) => qret = TypeError

\* C15: a projection keeps the length and the order of the collection: one
\* string key gives the n field values (the i-th is the i-th element's), a
\* tuple of k string keys gives n tuples of k values (the i-th holds the i-th
\* element's values in key order), and a collection of one is not unwrapped.
C15_Projection ==
    /\ (entry.form = "str" /\ qret.kind # "unset") =>
            /\ qret.kind = "tuple"
            /\ Len(qret.val) = Len(self)
            /\ \A i \in DOMAIN self : qret.val[i] = self[i].json[entry.keys[1]]
    /\ (entry.form = "tuple" /\ qret.kind # "unset") =>
            /\ qret.kind = "list"
            /\ Len(qret.val) = Len(self)
            /\ \A i \in DOMAIN self :
                /\ Len(qret.val[i]) = Len(entry.keys)
                /\ \A n \in DOMAIN entry.keys :
                        qret.val[i][n] = self[i].json[entry.keys[n]]

\* C15 witness: two keys projected from three elements whose values differ
C15_Witness ==
    /\ entry.form = "tuple"
    /\ entry.keys = <<"status", "name">>
    /\ Len(self) = 3
    /\ qret.kind = "list"
    /\ Len(qret.val) = 3
    /\ qret.val[1] # qret.val[2]
    /\ qret.val[1][1] # qret.val[1][2]

\* r holds exactly the keys asked for, with the values the Record js has for them
PartialOf(r, js, keys) ==
    /\ DOMAIN r = {keys[n] : n \in DOMAIN keys}
    /\ \A k \in DOMAIN r : r[k] = js[k]

\* C16: a mapping followed by string keys returns, for exactly the elements
\* that match the mapping and in collection order, the partial Records whose
\* keys are the trailing keys and whose values are the matching Records' values
\* (the only match by itself, under the cardinality rule of C11).
C16_FilterThenProject ==
    (entry.form = "dictkeys" /\ Filtered) =>
        LET hits == Matching(self, entry.filter)
            nth(n) == self[NthMatch(self, entry.filter, n)].json
        IN  IF Cardinality(hits) # 1
            THEN /\ qret.kind = "list"
                 /\ Len(qret.val) = Cardinality(hits)
                 /\ \A n \in DOMAIN qret.val : PartialOf(qret.val[n], nth(n), entry.keys)
            ELSE IF Len(entry.keys) # 1
            THEN qret.kind = "dict" /\ PartialOf(qret.val, nth(1), entry.keys)
            ELSE qret.kind = "value" /\ qret.val = nth(1)[entry.keys[1]]

\* C16 witness: the first and the third of three elements match, and two keys
\* are projected from them
C16_Witness ==
    /\ entry.form = "dictkeys"
    /\ Len(self) = 3
    /\ Matching(self, entry.filter) = {1, 3}
    /\ entry.keys = <<"name", "status">>
    /\ qret.kind = "list"
    /\ Len(qret.val) = 2
    /\ qret.val[1] # qret.val[2]

\* ------------------------------------------------- claims on the nodes
\* C17: in every reachable state, after any sequence of construction, append,
\* create and fetch operations, every element of a collection of a board is an
\* object of one of the classes of ModifiedList.types: a value of any other
\* type never gets into a collection.
C17_OnlyEntityKinds ==
    \A o \in BoardRefs :
        /\ \A n \in DOMAIN lists[o] : Kind(lists[o][n]) \in Types
        /\ \A n \in DOMAIN cards[o] : Kind(cards[o][n]) \in Types

\* C18: in every reachable state the Record of a node is one complete snapshot,
\* the Record it was constructed with or the whole response of one successful
\* refresh: never fields of two snapshots, also while a refresh and a listing
\* of the same node run in the workers of one chunk.
C18_WholeSnapshot ==
    \A r \in DOMAIN json :
        \E v \in 1..server : json[r] = Snapshot(json[r].id, v)

\* C18 witness: in one chunk the refresh of the board has stored a newer
\* snapshot while the listing of the same board is still running
C18_Witness ==
    \E i, j \in DOMAIN response_lst[1] :
        /\ ChunkOf(i) = ChunkOf(j)
        /\ response_lst[1][i].call = Call("get_self", 1, response_lst[1][i].call.id)
        /\ response_lst[1][i].st = "ok"
        /\ response_lst[1][j].call = Call("get_lists", 1, response_lst[1][j].call.id)
        /\ response_lst[1][j].st = "running"
        /\ json[1] = Snapshot("b", 2)

\* the step on which the i-th call of caller t, a listing `fn`, comes back with
\* status 200
ListingBack(t, i, fn) ==
    /\ i \in DOMAIN response_lst[t]
    /\ response_lst[t][i].call.fn = fn
    /\ response_lst[t][i].st = "running"
    /\ response_lst'[t][i].st = "ok"

\* the collection `new` holds objects constructed on this step, of class c, one
\* per Record of the listing and in its order
FreshFrom(new, listing, c) ==
    /\ Len(new) = Len(listing)
    /\ \A n \in DOMAIN new :
        /\ new[n] \in DOMAIN json' \ DOMAIN json
        /\ cls'[new[n]] = c
        /\ json'[new[n]].id = listing[n]
    /\ \A m, n \in DOMAIN new : m # n => new[m] # new[n]

\* C19: a listing (Board.get_lists, Board.get_cards) that succeeds binds the
\* child collection to newly constructed nodes, one per listed Record in listing
\* order; no node held before is in the new collection or is changed, and the
\* node's own Record and its other child collection stay as they are.
C19_ReplacesWholesale ==
    [][\A t \in Callers : \A i \in 1..IdCap :
        /\ ListingBack(t, i, "get_lists") =>
            LET o == response_lst[t][i].call.obj
            IN  /\ FreshFrom(lists'[o], response_lst'[t][i].res, "List")
                /\ cards' = cards
                /\ \A r \in DOMAIN json : json'[r] = json[r] /\ cls'[r] = cls[r]
        /\ ListingBack(t, i, "get_cards") =>
            LET o == response_lst[t][i].call.obj
            IN  /\ FreshFrom(cards'[o], response_lst'[t][i].res, "Card")
                /\ lists' = lists
                /\ \A r \in DOMAIN json : json'[r] = json[r] /\ cls'[r] = cls[r]]_vars

\* C19 witness: a second listing has replaced the two lists of the first by two
\* new objects, in the order of its own response
C19_Witness ==
    /\ Len(lists[1]) = 2
    /\ Id(lists[1][1]) = "c2"
    /\ \E r \in DOMAIN json :
        /\ cls[r] = "List"
        /\ r < lists[1][1]
        /\ Id(r) = "c1"
    /\ \A n \in DOMAIN lists[1] : lists[1][n] > Len(json) - 2
    /\ Len(json) = 5

\* ------------------------------------------- the frame of queue/execute
\* the ids of the calls staged under the keys other than k
StagedElsewhere(k) ==
    UNION {{request_pool[x][n].id : n \in DOMAIN request_pool[x]} :
                x \in DOMAIN request_pool \ {k}}

\* C20: queue(key, fn, args) appends the call at the end of key's list, creating
\* the list when the key is absent, and leaves the lists of the other keys as
\* they are; execute(key) leaves the list of every other key as it is, from
\* its entry to its return, and runs none of their calls.
C20_OtherKeysUntouched ==
    [][IF budget' # budget
       THEN \E k \in DOMAIN request_pool' :
                LET old == IF k \in DOMAIN request_pool THEN request_pool[k] ELSE <<>>
                IN  /\ Len(request_pool'[k]) = Len(old) + 1
                    /\ SubSeq(request_pool'[k], 1, Len(old)) = old
                    /\ request_pool'[k][Len(old) + 1].id = nextId
                    /\ DOMAIN request_pool' = DOMAIN request_pool \cup {k}
                    /\ \A x \in DOMAIN request_pool \ {k} :
                            request_pool'[x] = request_pool[x]
       ELSE /\ request_pool' # request_pool =>
                \E t \in Callers :
                    /\ pc[t] = "pop"
                    /\ DOMAIN request_pool' = DOMAIN request_pool \ {key[t]}
                    /\ \A x \in DOMAIN request_pool' :
                            request_pool'[x] = request_pool[x]
            /\ \A i \in 1..IdCap :
                    executed'[i] # executed[i] =>
                        \E t \in Callers :
                            /\ InFlight(t)
                            /\ \E n \in DOMAIN response_lst[t] :
                                    response_lst[t][n].call.id = i
                            /\ i \notin StagedElsewhere(key[t])]_vars

\* C20 witness: k1 was run to its end while two calls staged one after the
\* other under k2 kept their places and were not run
C20_Witness ==
    /\ Returned(1)
    /\ key[1] = "k1"
    /\ ret[1].kind = "list"
    /\ Len(ret[1].val) >= 1
    /\ DOMAIN request_pool = {"k2"}
    /\ Len(request_pool["k2"]) = 2
    /\ request_pool["k2"][1].id < request_pool["k2"][2].id
    /\ \A n \in DOMAIN request_pool["k2"] : executed[request_pool["k2"][n].id] = 0

\* ------------------------------------- claims on the executor, continued
\* C21: at every moment of an execute(key) the calls of the batch that run at
\* the same time are at most min(threads, chunk_size).
C21_BoundedConcurrency ==
    \A t \in Callers : Cardinality(Running(t)) <= Min(threads, chunk_size)

\* C21 witness: a chunk of three calls on two threads: two run and the third
\* waits for a worker
C21_Witness ==
    /\ threads = 2
    /\ chunk_size = 3
    /\ Cardinality(Running(1)) = 2
    /\ \E i \in DOMAIN response_lst[1] : response_lst[1][i].st = "pending"
    /\ Len(response_lst[1]) = 3

\* --------------------------------------------- claims on set_family, continued
\* the calls of the batch a caller's execute() is running, in queueing order
BatchCalls(t) == [i \in DOMAIN response_lst[t] |-> response_lst[t][i].call]

\* C22: set_family works for a board, a list and a card: it never fails on
\* building its tables, and its first batch is the node's self-refresh and the
\* child listing of the node's kind.
C22_EveryKind ==
    \A t \in Callers :
        /\ sfret[t] # "AttributeError"
        /\ (sf[t].phase = "batch1" /\ pc[t] = "pop") =>
                LET o == sf[t].root
                IN  /\ Len(BatchCalls(t)) = 2
                    /\ BatchCalls(t)[1].fn = "get_self"
                    /\ BatchCalls(t)[1].obj = o
                    /\ BatchCalls(t)[2].fn = fnc_sw[TrelloClass(Kind(o))]
                    /\ BatchCalls(t)[2].obj = o

\* the family keys a set_family on `root` stages calls under: the node's own
\* and one per child it has fetched
StagedUnder(root) ==
    {FamilyKey(Id(root))} \cup
    {FamilyKey(Id(lists[root][n])) : n \in {m \in DOMAIN lists[root] : lists[root][m] # 0}}

\* C23: when set_family returns normally, none of the keys it staged calls
\* under is left in the request pool.
C23_PoolRestored ==
    [][\A t \in Callers :
            (sf[t].phase = "batch2" /\ sf'[t].phase = "none" /\ sfret'[t] = "ok")
                => StagedUnder(sf[t].root) \cap DOMAIN request_pool' = {}]_vars

\* the ids of the calls in a sequence of staged calls
IdsOf(calls) == {calls[n].id : n \in DOMAIN calls}

\* C24: no staged call is lost: when execute(k) removes the key and returns,
\* every call that is staged under k at that moment was run by this execute()
\* or is still staged under k afterwards.
C24_NoCallLost ==
    [][\A t \in Callers :
            (pc[t] = "pop" /\ pc'[t] = "idle" /\ key[t] \in DOMAIN request_pool)
                => \A i \in IdsOf(request_pool[key[t]]) :
                        \/ i \in IdsOf(Flat(pool_lst[t]))
                        \/ /\ key[t] \in DOMAIN request_pool'
                           /\ i \in IdsOf(request_pool'[key[t]])]_vars

\* ------------------------------------- claims on failures and interleavings
\* the calls `fn` on object o of caller t's batch that came back with status 200
Succeeded(t, fn, o) ==
    {i \in DOMAIN response_lst[t] :
        /\ response_lst[t][i].st = "ok"
        /\ response_lst[t][i].call.fn = fn
        /\ response_lst[t][i].call.obj = o}

\* the ids of the objects of a collection, in its order
IdsIn(coll) == [n \in DOMAIN coll |-> Id(coll[n])]

\* C25: when execute(key) raises the failure of a call, the key has been
\* removed from the pool, and what the successful calls of the batch did stays:
\* nothing is undone on raising, a node refreshed by the batch holds a Record
\* the batch fetched and a collection listed by the batch holds a listing the
\* batch fetched.
C25_RaisesAfterPop ==
    [][\A t \in Callers :
        (Returns(t) /\ Failed(response_lst[t]) # {}) =>
            /\ ret'[t].kind = "raise"
            /\ key[t] \notin DOMAIN request_pool'
            /\ <<cls, json, lists, cards>>' = <<cls, json, lists, cards>>
            /\ \A r \in DOMAIN json :
                Succeeded(t, "get_self", r) # {} =>
                    \E i \in Succeeded(t, "get_self", r) :
                        json'[r] = response_lst[t][i].res[1]
            /\ \A o \in BoardRefs :
                /\ Succeeded(t, "get_lists", o) # {} =>
                    \E i \in Succeeded(t, "get_lists", o) :
                        IdsIn(lists'[o]) = response_lst[t][i].res
                /\ Succeeded(t, "get_cards", o) # {} =>
                    \E i \in Succeeded(t, "get_cards", o) :
                        IdsIn(cards'[o]) = response_lst[t][i].res]_vars

\* C25 witness: execute() raised the failure of the board's refresh, its key is
\* gone, and the lists the same batch fetched are the board's lists
C25_Witness ==
    /\ pc[1] = "idle"
    /\ ret[1].kind = "raise"
    /\ key[1] \notin DOMAIN request_pool
    /\ \E i \in DOMAIN response_lst[1] :
        /\ response_lst[1][i].st = "err"
        /\ response_lst[1][i].call.fn = "get_self"
    /\ \E i \in Succeeded(1, "get_lists", 1) :
        /\ Len(response_lst[1][i].res) = 2
        /\ IdsIn(lists[1]) = response_lst[1][i].res

\* the step on which the i-th call of caller t raises in its worker
CallFails(t, i) ==
    /\ i \in DOMAIN response_lst[t]
    /\ response_lst[t][i].st = "running"
    /\ response_lst'[t][i].st = "err"

\* C26: when the request of a refresh or of a child listing fails, the call
\* raises and leaves every Record and every child collection as it was.
C26_FailureLeavesNode ==
    [][\A t \in Callers : \A i \in 1..IdCap :
        CallFails(t, i) =>
            /\ response_lst[t][i].call.fn \in {"get_self", "get_lists", "get_cards"}
            /\ response_lst'[t][i].res = <<>>
            /\ cls' = cls
            /\ json' = json
            /\ lists' = lists
            /\ cards' = cards]_vars

\* C26 witness: the listing of the board's lists has raised while the board
\* holds two lists of an earlier listing and Trello has moved on
C26_Witness ==
    /\ \E i \in DOMAIN response_lst[1] :
        /\ response_lst[1][i].st = "err"
        /\ response_lst[1][i].call.fn = "get_lists"
    /\ Len(lists[1]) = 2
    /\ server = 2
    /\ json[1] = Snapshot("b", 1)

\* the first batch of caller t's set_family has returned its two responses
FirstBatchBack(t) == sf[t].phase = "batch1" /\ pc[t] = "idle" /\ ret[t].kind = "list"

\* C27: when the first batch of set_family has returned, in whichever order the
\* refresh and the listing finished, the node's Record is the Record the refresh
\* fetched and its child collection is the listing, in listing order.
C27_OrderIndependent ==
    \A t \in Callers :
        FirstBatchBack(t) =>
            LET o == sf[t].root
            IN  /\ Len(ret[t].val) = 2
                /\ json[o] = ret[t].val[1].res[1]
                /\ IdsIn(lists[o]) = ret[t].val[2].res
                /\ \A n \in DOMAIN lists[o] : cls[lists[o][n]] = "List"

\* C27 witness: the listing finished first, while Trello was at version 1, and
\* the refresh after it fetched version 2
C27_Witness ==
    /\ FirstBatchBack(1)
    /\ json[1] = Snapshot("b", 2)
    /\ Len(lists[1]) = 2
    /\ \A n \in DOMAIN lists[1] : json[lists[1][n]].name = 1

\* ------------------------------------------------- claim on termination
\* execute() of caller t has gone through all its chunks, removed the key and
\* returned the list or raised
RunOver(t) ==
    /\ pc[t] = "idle"
    /\ ret[t].kind \in {"list", "raise"}
    /\ key[t] \notin DOMAIN request_pool
    /\ sleeps[t] = Len(pool_lst[t])
    /\ Len(response_lst[t]) = Len(Flat(pool_lst[t]))
    /\ \A i \in DOMAIN response_lst[t] : Done(response_lst[t][i])

\* C28: every execute(key) of a finite staged list, for every chunk size >= 1,
\* terminates when each deferred call terminates: all chunks are issued, the key
\* is removed and the call returns or raises.
C28_Terminates == \A t \in Callers : InFlight(t) ~> RunOver(t)

\* C28 witness: an execute() of four calls in chunks of one is over
C28_Witness ==
    /\ RunOver(1)
    /\ chunk_size = 1
    /\ Len(pool_lst[1]) = MaxCalls

=============================================================================
